---- MODULE Spec2Model ----
(***************************************************************************)
(* Model of src/main.rs: the WgpuWidget of the druid/wgpu example.  The    *)
(* widget keeps a CPU-readable staging buffer (output_buffer) whose        *)
(* recorded dimensions are padded to multiples of 256; every paint renders *)
(* to a texture, copies it into the staging buffer, maps the buffer,       *)
(* draws the bytes and unmaps.                                             *)
(*                                                                         *)
(* Numbers.  The widths, heights and byte sizes of the program are u32 and *)
(* u64 values and the claims compare them with unbounded products such as  *)
(* 4 * pad(w) * pad(h).  A number is therefore written as the sequence of  *)
(* its base-256 digits, least significant first, without leading zero      *)
(* digits (<<>> is 0, <<0, 1>> is 256, <<255, 255, 255, 255>> is u32::MAX).*)
(* A u32 is a number of at most four digits.                               *)
(*                                                                         *)
(* An intermediate result that is used more than once is bound by a        *)
(* quantifier over a one-element set, CHOOSE r \in {f(v) : v \in {e}} : TRUE *)
(* or \E v \in {e} : ..., which is LET v == e IN f(v) with e evaluated     *)
(* once; TLC evaluates a LET definition again at each use when it computes *)
(* ENABLED for the fairness conditions.                                    *)
(***************************************************************************)
EXTENDS Integers, Sequences, FiniteSets, TLC

\* ------------------------------------------------------------ bounds
\* Number of paint calls the framework issues in one run.
MaxPaints == 3
\* Number of timers the framework hands out in one run.
MaxTimers == 2

\* ------------------------------------------------------------ numbers
RECURSIVE Norm(_)
\* Drop the leading (most significant) zero digits.
Norm(s) ==
    IF s = <<>> THEN <<>>
    ELSE IF s[Len(s)] = 0 THEN Norm(SubSeq(s, 1, Len(s) - 1))
    ELSE s

RECURSIVE N(_)
\* The number with the (small) integer value k.
N(k) == IF k = 0 THEN <<>> ELSE <<k % 256>> \o N(k \div 256)

Digit(s, i) == IF i <= Len(s) THEN s[i] ELSE 0

RECURSIVE AddFrom(_, _, _, _)
AddFrom(a, b, i, c) ==
    IF i > Len(a) /\ i > Len(b)
    THEN (IF c = 0 THEN <<>> ELSE <<c>>)
    ELSE LET t == Digit(a, i) + Digit(b, i) + c
         IN  <<t % 256>> \o AddFrom(a, b, i + 1, t \div 256)

\* a + b, unbounded.
Add(a, b) ==
    CHOOSE r \in {Norm(sum) : sum \in {AddFrom(x, y, 1, 0) : x \in {a}, y \in {b}}} : TRUE

RECURSIVE MulDigitFrom(_, _, _, _)
MulDigitFrom(a, d, i, c) ==
    IF i > Len(a)
    THEN (IF c = 0 THEN <<>> ELSE <<c>>)
    ELSE LET t == a[i] * d + c
         IN  <<t % 256>> \o MulDigitFrom(a, d, i + 1, t \div 256)

RECURSIVE Mul(_, _)
\* a * b, unbounded.
Mul(a, b) ==
    IF b = <<>> THEN <<>>
    ELSE CHOOSE r \in
             {Norm(p) : p \in {Add(MulDigitFrom(a, b[1], 1, 0), <<0>> \o Mul(a, Tail(b)))}} :
                 TRUE

RECURSIVE LeqFrom(_, _, _)
LeqFrom(a, b, i) ==
    IF i = 0 THEN TRUE
    ELSE IF a[i] # b[i] THEN a[i] < b[i]
    ELSE LeqFrom(a, b, i - 1)

\* a <= b.
Leq(a, b) ==
    IF Len(a) # Len(b) THEN Len(a) < Len(b) ELSE LeqFrom(a, b, Len(a))

\* x % 256.
Rem256(a) == Digit(a, 1)

\* Whether the number is representable as a u32.
FitsU32(a) == Len(a) <= 4

\* The number modulo 2^32: what a wrapping u32 operation keeps.
WrapU32(a) == Norm(SubSeq(a, 1, IF Len(a) < 4 THEN Len(a) ELSE 4))

\* u32::MAX.
U32_MAX == <<255, 255, 255, 255>>

\* std::mem::size_of::<u32>() as u32.
u32_size == N(4)

\* ------------------------------------------------------------ inputs
\* A widget extent as the framework reports it (an f64): whole pixels plus,
\* when frac holds, a fraction of a pixel.
Extent(whole, frac) == [whole |-> whole, frac |-> frac]

\* The widget sizes (width, height) the framework paints at.
Sizes ==
    { <<Extent(N(100), FALSE), Extent(N(100), FALSE)>>,
      <<Extent(N(256), FALSE), Extent(N(256), FALSE)>>,
      <<Extent(N(299), TRUE), Extent(N(199), TRUE)>>,
      <<Extent(N(0), FALSE), Extent(N(0), FALSE)>>,
      <<Extent(N(32768), FALSE), Extent(N(32768), FALSE)>>,
      <<Extent(<<0, 0, 0, 64>>, FALSE), Extent(N(1), FALSE)>>,
      <<Extent(<<254, 255, 255, 255>>, TRUE), Extent(N(100), FALSE)>> }

\* TimerToken::INVALID.
INVALID == 0

\* The tokens a Timer event can carry: INVALID, and those request_timer returns.
TimerTokens == 0 .. MaxTimers

\* The events the framework dispatches to the widget.
Events ==
    {[kind |-> "WindowConnected", id |-> INVALID], [kind |-> "Other", id |-> INVALID]}
        \cup {[kind |-> "Timer", id |-> t] : t \in TimerTokens}

None == [some |-> FALSE]
Some(v) == [some |-> TRUE, value |-> v]

\* ------------------------------------------------------------ state
VARIABLES
    overflow_checks,        \* build profile: u32 overflow panics (TRUE) or wraps
    pc,                     \* position of the UI thread
    panic_line,             \* source line of the panic that ended the program, or 0
    paints,                 \* paint calls begun
    size,                   \* ctx.size() of the paint: (width, height) extents
    texture_width,          \* paint's locals (they keep the last paint's values)
    texture_height,
    texture_width_padded,
    texture_height_padded,
    output_buffer,          \* self.output_buffer: [id, size] of the retained buffer
    buffers_created,        \* device.create_buffer calls so far (the next buffer id)
    output_buffer_width,    \* self.output_buffer_width
    output_buffer_height,   \* self.output_buffer_height
    copy,                   \* the texture-to-buffer copy recorded by this paint
    gpu_work,               \* "none" or "executing": submitted command buffers
    buffer_map,             \* map state of the retained buffer
    chan,                   \* the oneshot channel of this paint: "none", "open"
                            \* (both ends alive, nothing sent), "Ok" / "Err" (the
                            \* result sent), "closed" (an end dropped, nothing sent)
    calls,                  \* this paint's device and channel calls so far, in order
    drawn,                  \* what this paint drew: clip and image rectangles
    timer_id,               \* self.timer_id
    timers_requested,       \* ctx.request_timer calls so far
    invalidations,          \* layout / paint requests made through the contexts
    event                   \* the event being handled, then the last one handled

vars ==
    <<overflow_checks, pc, panic_line, paints, size, texture_width, texture_height,
      texture_width_padded, texture_height_padded, output_buffer, buffers_created,
      output_buffer_width, output_buffer_height, copy, gpu_work, buffer_map, chan,
      calls, drawn, timer_id, timers_requested, invalidations, event>>

widget == <<output_buffer, buffers_created, output_buffer_width, output_buffer_height>>
locals == <<size, texture_width, texture_height, texture_width_padded, texture_height_padded>>
frame == <<copy, gpu_work, buffer_map, chan, calls, drawn>>
timers == <<timer_id, timers_requested, invalidations, event>>

\* ------------------------------------------------------------ pure parts
\* `x.ceil() as u32`: round up to whole pixels, saturating at u32::MAX.
ceil_as_u32(x) ==
    LET c == IF x.frac THEN Add(x.whole, N(1)) ELSE x.whole
    IN  IF FitsU32(c) THEN c ELSE U32_MAX

\* One pass of `while x % 256 != 0 { x += 1 }` on a u32: leave the loop's state
\* alone once the condition is false (or the increment has panicked), else
\* increment.  The increment overflows at u32::MAX: with overflow checks it
\* panics, without them it wraps to 0.
pad_step(s, checks) ==
    IF s.panic \/ Rem256(s.value) = 0 THEN s
    ELSE CHOOSE next \in
             { IF FitsU32(n) THEN [panic |-> FALSE, value |-> n]
               ELSE IF checks THEN [panic |-> TRUE, value |-> s.value]
               ELSE [panic |-> FALSE, value |-> WrapU32(n)] :
                   n \in {Add(s.value, N(1))} } : TRUE

RECURSIVE pad_passes(_, _, _)
\* n passes of the loop, one after the other; a panic ends them.
pad_passes(s, n, checks) ==
    IF n = 0 THEN s
    ELSE IF n = 1 THEN pad_step(s, checks)
    ELSE CHOOSE last \in
             UNION { { IF first.panic THEN first ELSE pad_passes(first, n - half, checks) :
                           first \in {pad_passes(s, half, checks)} } :
                         half \in {n \div 2} } : TRUE

\* Padding that always moves to the next multiple of 256, `x += 256 - x % 256`,
\* also from a value that is aligned already.
pad_loop_always_adds(x, checks) ==
    LET n == Add(x, N(256 - Rem256(x)))
    IN  IF FitsU32(n) THEN [panic |-> FALSE, value |-> n]
        ELSE IF checks THEN [panic |-> TRUE, value |-> x]
        ELSE [panic |-> FALSE, value |-> WrapU32(n)]

\* The padding loop of lines 240-246.  From any u32 the condition is false
\* after at most 255 increments, so 256 passes run the loop to its exit.
pad_loop(x, checks) == pad_passes([panic |-> FALSE, value |-> x], 256, checks)

\* `a * b` on u32: the value kept, and whether the multiplication overflowed.
mul_u32(a, b) ==
    CHOOSE r \in {[value |-> WrapU32(p), overflow |-> ~FitsU32(p)] : p \in {Mul(a, b)}} : TRUE

\* create_output_buffer: (u32_size * buffer_width * buffer_height) as u64,
\* multiplied left to right in u32 and widened afterwards.
create_output_buffer(buffer_width, buffer_height, checks) ==
    CHOOSE b \in
        UNION { { [panic |-> checks /\ (m1.overflow \/ m2.overflow), size |-> m2.value] :
                      m2 \in {mul_u32(m1.value, buffer_height)} } :
                    m1 \in {mul_u32(u32_size, buffer_width)} } : TRUE

\* Limits::default().max_texture_dimension_2d, the limit the device is requested
\* with.
max_texture_dimension_2d == 8192

\* device.create_texture validates the descriptor against the device's limits: a
\* dimension of zero, or one above the limit, is a validation error, which the
\* device's default error handler turns into a panic.
texture_valid(width, height) ==
    /\ width # N(0)
    /\ height # N(0)
    /\ Leq(width, N(max_texture_dimension_2d))
    /\ Leq(height, N(max_texture_dimension_2d))

\* NonZeroU32::new.
NonZeroU32_new(x) == IF x = <<>> THEN None ELSE Some(x)

\* ------------------------------------------------------------ construction
\* WgpuWidget::new: a 256 x 256 staging buffer, no timer.
Init ==
    /\ overflow_checks \in BOOLEAN
    /\ pc = "idle"
    /\ panic_line = 0
    /\ paints = 0
    /\ size = <<Extent(N(0), FALSE), Extent(N(0), FALSE)>>
    /\ texture_width = N(0)
    /\ texture_height = N(0)
    /\ texture_width_padded = N(0)
    /\ texture_height_padded = N(0)
    /\ output_buffer =
         [id |-> 0, size |-> create_output_buffer(N(256), N(256), overflow_checks).size]
    /\ buffers_created = 1
    /\ output_buffer_width = N(256)
    /\ output_buffer_height = N(256)
    /\ copy = None
    /\ gpu_work = "none"
    /\ buffer_map = "unmapped"
    /\ chan = "none"
    /\ calls = <<>>
    /\ drawn = None
    /\ timer_id = INVALID
    /\ timers_requested = 0
    /\ invalidations = {}
    /\ event = [kind |-> "None", id |-> INVALID]

\* ------------------------------------------------------------ panics
\* A panic on the UI thread at the given source line: nothing after it runs.
panic(line) ==
    /\ pc' = "panicked"
    /\ panic_line' = line

\* ------------------------------------------------------------ events
\* The framework calls event() between paints.  WindowConnected is dispatched
\* only while the framework still has a timer to hand out.
dispatch_event(e) ==
    /\ pc = "idle"
    /\ e.kind = "WindowConnected" => timers_requested < MaxTimers
    /\ pc' = "event"
    /\ event' = e
    /\ UNCHANGED <<overflow_checks, panic_line, paints, locals, widget, frame,
                   timer_id, timers_requested, invalidations>>

\* Event::WindowConnected arm: ctx.request_timer returns a fresh token.
event_window_connected ==
    /\ timers_requested' = timers_requested + 1
    /\ timer_id' = timers_requested + 1
    /\ UNCHANGED invalidations

\* The arm the source leaves commented out: a Timer event with the widget's token
\* requests a layout and arms the timer again.
event_other_rearm(e) ==
    IF e.kind = "Timer" /\ e.id = timer_id
    THEN /\ invalidations' = invalidations \cup {"layout"}
         /\ timers_requested' = timers_requested + 1
         /\ timer_id' = timers_requested + 1
    ELSE UNCHANGED <<timer_id, timers_requested, invalidations>>

\* The `_ => ()` arm, which Timer events reach too.
event_other(e) ==
    UNCHANGED <<timer_id, timers_requested, invalidations>>

\* WgpuWidget::event.
event_handler ==
    /\ pc = "event"
    /\ IF event.kind = "WindowConnected"
       THEN event_window_connected
       ELSE event_other(event)
    /\ pc' = "idle"
    /\ UNCHANGED <<overflow_checks, panic_line, paints, locals, widget, frame, event>>

\* ------------------------------------------------------------ paint
\* paint, lines 232-235: the requested size, rounded up to whole pixels.
paint_begin(ctx_size) ==
    /\ pc = "idle"
    /\ paints < MaxPaints
    /\ paints' = paints + 1
    /\ size' = ctx_size
    /\ texture_width' = ceil_as_u32(ctx_size[1])
    /\ texture_height' = ceil_as_u32(ctx_size[2])
    /\ copy' = None
    /\ drawn' = None
    /\ calls' = <<>>
    /\ pc' = "pad"
    /\ UNCHANGED <<overflow_checks, panic_line, texture_width_padded,
                   texture_height_padded, widget, gpu_work, buffer_map, chan, timers>>

\* paint, lines 237-246: the two padding loops.
paint_pad ==
    /\ pc = "pad"
    /\ \E w \in {pad_loop(texture_width, overflow_checks)},
          h \in {pad_loop(texture_height, overflow_checks)} :
           IF w.panic
           THEN panic(241) /\ UNCHANGED <<texture_width_padded, texture_height_padded>>
           ELSE IF h.panic
           THEN /\ panic(245)
                /\ texture_width_padded' = w.value
                /\ UNCHANGED texture_height_padded
           ELSE /\ texture_width_padded' = w.value
                /\ texture_height_padded' = h.value
                /\ pc' = "ensure"
                /\ UNCHANGED panic_line
    /\ UNCHANGED <<overflow_checks, paints, size, texture_width, texture_height,
                   widget, frame, timers>>

\* paint_ensure replacing the buffer only when both padded dimensions differ from
\* the recorded ones.
paint_ensure_both_differ ==
    /\ pc = "ensure"
    /\ IF /\ texture_width_padded # output_buffer_width
          /\ texture_height_padded # output_buffer_height
       THEN \E b \in {create_output_buffer(texture_width_padded, texture_height_padded,
                                            overflow_checks)} :
                /\ output_buffer_width' = texture_width_padded
                /\ output_buffer_height' = texture_height_padded
                /\ IF b.panic
                   THEN panic(193) /\ UNCHANGED <<output_buffer, buffers_created, buffer_map>>
                   ELSE /\ output_buffer' = [id |-> buffers_created, size |-> b.size]
                        /\ buffers_created' = buffers_created + 1
                        /\ buffer_map' = "unmapped"
                        /\ pc' = "encode"
                        /\ UNCHANGED panic_line
       ELSE /\ pc' = "encode"
            /\ UNCHANGED <<widget, panic_line, buffer_map>>
    /\ UNCHANGED <<overflow_checks, paints, locals, copy, gpu_work, chan, calls, drawn,
                   timers>>

\* paint, lines 248-258: replace the staging buffer when the padded size differs
\* from the recorded one.  The dimensions are recorded before the buffer is made.
\* The new buffer is created with mapped_at_creation: false.
paint_ensure ==
    /\ pc = "ensure"
    /\ IF \/ texture_width_padded # output_buffer_width
          \/ texture_height_padded # output_buffer_height
       THEN \E b \in {create_output_buffer(texture_width_padded, texture_height_padded,
                                            overflow_checks)} :
                /\ output_buffer_width' = texture_width_padded
                /\ output_buffer_height' = texture_height_padded
                /\ IF b.panic
                   THEN panic(193) /\ UNCHANGED <<output_buffer, buffers_created, buffer_map>>
                   ELSE /\ output_buffer' = [id |-> buffers_created, size |-> b.size]
                        /\ buffers_created' = buffers_created + 1
                        /\ buffer_map' = "unmapped"
                        /\ pc' = "encode"
                        /\ UNCHANGED panic_line
       ELSE /\ pc' = "encode"
            /\ UNCHANGED <<widget, panic_line, buffer_map>>
    /\ UNCHANGED <<overflow_checks, paints, locals, copy, gpu_work, chan, calls, drawn,
                   timers>>

\* paint_encode with the row stride taken from the unpadded width.
paint_encode_unpadded_stride ==
    /\ pc = "encode"
    /\ LET stride == mul_u32(u32_size, texture_width)
       IN  IF ~texture_valid(texture_width, texture_height)
           THEN panic(274) /\ UNCHANGED copy
           ELSE IF overflow_checks /\ stride.overflow
           THEN panic(321) /\ UNCHANGED copy
           ELSE /\ copy' = [some |-> TRUE,
                            buffer |-> output_buffer.id,
                            bytes_per_row |-> NonZeroU32_new(stride.value),
                            rows_per_image |-> NonZeroU32_new(texture_height_padded),
                            width |-> texture_width,
                            height |-> texture_height]
                /\ pc' = "submit"
                /\ UNCHANGED panic_line
    /\ UNCHANGED <<overflow_checks, paints, locals, widget, gpu_work, buffer_map, chan,
                   calls, drawn, timers>>

\* paint, lines 260-326: the texture of the unpadded size, the render pass and the
\* texture-to-buffer copy with its layout.
paint_encode ==
    /\ pc = "encode"
    /\ LET stride == mul_u32(u32_size, texture_width_padded)
       IN  IF ~texture_valid(texture_width, texture_height)
           THEN panic(274) /\ UNCHANGED copy
           ELSE IF overflow_checks /\ stride.overflow
           THEN panic(321) /\ UNCHANGED copy
           ELSE /\ copy' = [some |-> TRUE,
                            buffer |-> output_buffer.id,
                            bytes_per_row |-> NonZeroU32_new(stride.value),
                            rows_per_image |-> NonZeroU32_new(texture_height_padded),
                            width |-> texture_width,
                            height |-> texture_height]
                /\ pc' = "submit"
                /\ UNCHANGED panic_line
    /\ UNCHANGED <<overflow_checks, paints, locals, widget, gpu_work, buffer_map, chan,
                   calls, drawn, timers>>

\* paint, line 328: queue.submit.
paint_submit ==
    /\ pc = "submit"
    /\ gpu_work' = "executing"
    /\ calls' = Append(calls, "submit")
    /\ pc' = "map"
    /\ UNCHANGED <<overflow_checks, panic_line, paints, locals, widget, copy,
                   buffer_map, chan, drawn, timers>>

\* paint, lines 331-336: the oneshot channel and the map request.  The buffer
\* handle records the requested range from here until unmap().
paint_map_async ==
    /\ pc = "map"
    /\ chan' = "open"
    /\ buffer_map' = "pending"
    /\ calls' = Append(calls, "map_async")
    /\ pc' = "poll"
    /\ UNCHANGED <<overflow_checks, panic_line, paints, locals, widget, copy,
                   gpu_work, drawn, timers>>

\* The device finishes the submitted command buffer, on its own time.
device_execute ==
    /\ gpu_work = "executing"
    /\ gpu_work' = "none"
    /\ UNCHANGED <<overflow_checks, pc, panic_line, paints, locals, widget, copy,
                   buffer_map, chan, calls, drawn, timers>>

\* The closure of lines 334-336 with the sender dropped unused: nothing is sent.
map_callback_drops_sender(result) ==
    /\ pc = "poll"
    /\ gpu_work = "none"
    /\ buffer_map = "pending"
    /\ buffer_map' = IF result = "Ok" THEN "mapped" ELSE "failed"
    /\ chan' = "closed"
    /\ UNCHANGED <<overflow_checks, pc, panic_line, paints, locals, widget, copy,
                   gpu_work, calls, drawn, timers>>

\* The closure of lines 334-336, run by the device on the UI thread inside poll
\* once the work before the map is done: tx.send(result).unwrap().  The send
\* fails, and the unwrap panics, when the receiving end is gone.  A failed map
\* leaves the range recorded on the buffer handle ("failed") until unmap()
\* clears it.
map_callback(result) ==
    /\ pc = "poll"
    /\ gpu_work = "none"
    /\ buffer_map = "pending"
    /\ buffer_map' = IF result = "Ok" THEN "mapped" ELSE "failed"
    /\ IF chan = "open"
       THEN /\ chan' = result
            /\ calls' = Append(calls, IF result = "Ok" THEN "send_ok" ELSE "send_err")
            /\ UNCHANGED <<pc, panic_line>>
       ELSE /\ panic(335)
            /\ UNCHANGED <<chan, calls>>
    /\ UNCHANGED <<overflow_checks, paints, locals, widget, copy, gpu_work, drawn,
                   timers>>

\* device.poll(Maintain::Poll): return at once, without waiting for the device
\* and without running the map callback.
paint_poll_no_wait ==
    /\ pc = "poll"
    /\ pc' = "receive"
    /\ calls' = Append(calls, "poll")
    /\ UNCHANGED <<overflow_checks, panic_line, paints, locals, widget, copy,
                   gpu_work, buffer_map, chan, drawn, timers>>

\* paint, line 338: device.poll(Maintain::Wait) returns when the device has no
\* work and no map request left.
paint_poll ==
    /\ pc = "poll"
    /\ gpu_work = "none"
    /\ buffer_map # "pending"
    /\ pc' = "receive"
    /\ calls' = Append(calls, "poll")
    /\ UNCHANGED <<overflow_checks, panic_line, paints, locals, widget, copy,
                   gpu_work, buffer_map, chan, drawn, timers>>

\* Line 340 with the map result ignored: the paint goes on to read the buffer
\* whatever the callback sent.
paint_receive_ignores_result ==
    /\ pc = "receive"
    /\ chan # "open"
    /\ calls' = Append(calls, "receive")
    /\ pc' = "draw"
    /\ UNCHANGED <<overflow_checks, panic_line, paints, locals, widget, copy,
                   gpu_work, buffer_map, chan, drawn, timers>>

\* paint, line 340: block_on(rx.receive()).unwrap().unwrap().  The receive blocks
\* while the channel is open and empty; a channel closed without a value makes
\* the first unwrap panic, a map error the second.
paint_receive ==
    /\ pc = "receive"
    /\ chan # "open"
    /\ calls' = Append(calls, "receive")
    /\ IF chan = "Ok"
       THEN pc' = "draw" /\ UNCHANGED panic_line
       ELSE panic(340)
    /\ UNCHANGED <<overflow_checks, paints, locals, widget, copy, gpu_work,
                   buffer_map, chan, drawn, timers>>

\* paint_draw with the clip taken from the padded rectangle.
paint_draw_clip_padded ==
    /\ pc = "draw"
    /\ drawn' = [some |-> TRUE,
                 data_len |-> output_buffer.size,
                 image_width |-> texture_width_padded,
                 image_height |-> texture_height_padded,
                 clip_width |-> texture_width_padded,
                 clip_height |-> texture_height_padded]
    /\ calls' = Append(calls, "draw")
    /\ pc' = "unmap"
    /\ UNCHANGED <<overflow_checks, panic_line, paints, locals, widget, copy,
                   gpu_work, buffer_map, chan, timers>>

\* paint, lines 342-362: the mapped bytes become an image of the padded size,
\* drawn into the padded rectangle under a clip of the unpadded one.
paint_draw ==
    /\ pc = "draw"
    /\ drawn' = [some |-> TRUE,
                 data_len |-> output_buffer.size,
                 image_width |-> texture_width_padded,
                 image_height |-> texture_height_padded,
                 clip_width |-> texture_width,
                 clip_height |-> texture_height]
    /\ calls' = Append(calls, "draw")
    /\ pc' = "unmap"
    /\ UNCHANGED <<overflow_checks, panic_line, paints, locals, widget, copy,
                   gpu_work, buffer_map, chan, timers>>

\* The end of paint without the unmap() of line 364.
paint_unmap_skipped ==
    /\ pc = "unmap"
    /\ chan' = "none"
    /\ calls' = calls
    /\ pc' = "idle"
    /\ UNCHANGED <<overflow_checks, panic_line, paints, locals, widget, copy,
                   gpu_work, buffer_map, drawn, timers>>

\* paint, lines 364-367: output_buffer.unmap(), then paint returns and the
\* channel is dropped.
paint_unmap ==
    /\ pc = "unmap"
    /\ buffer_map' = "unmapped"
    /\ chan' = "none"
    /\ calls' = Append(calls, "unmap")
    /\ pc' = "idle"
    /\ UNCHANGED <<overflow_checks, panic_line, paints, locals, widget, copy,
                   gpu_work, drawn, timers>>

\* ------------------------------------------------------------ specification
Next ==
    \/ \E e \in Events : dispatch_event(e)
    \/ event_handler
    \/ \E ctx_size \in Sizes : paint_begin(ctx_size)
    \/ paint_pad
    \/ paint_ensure
    \/ paint_encode
    \/ paint_submit
    \/ paint_map_async
    \/ device_execute
    \/ \E result \in {"Ok", "Err"} : map_callback(result)
    \/ paint_poll
    \/ paint_receive
    \/ paint_draw
    \/ paint_unmap

Spec == Init /\ [][Next]_vars

\* A statement of paint on the UI thread, from the padding loops to the return.
PaintStep ==
    \/ paint_pad
    \/ paint_ensure
    \/ paint_encode
    \/ paint_submit
    \/ paint_map_async
    \/ paint_poll
    \/ paint_receive
    \/ paint_draw
    \/ paint_unmap

\* A step of the device: finishing submitted work, or running the callback of a
\* map that is due.
DeviceStep ==
    \/ device_execute
    \/ \E result \in {"Ok", "Err"} : map_callback(result)

\* The UI thread goes on with paint's next statement while it is not blocked,
\* and the device goes on with its work.
Fairness == WF_vars(PaintStep) /\ WF_vars(DeviceStep)

FairSpec == Spec /\ Fairness

\* ------------------------------------------------------------ the spec's terms
\* pad(w) of the specification, on unbounded numbers: w if w % 256 = 0, else
\* w + (256 - w % 256).
SpecPad(w) == IF Rem256(w) = 0 THEN w ELSE Add(w, N(256 - Rem256(w)))

\* An extent rounded up to whole pixels.
SpecCeil(x) == IF x.frac THEN Add(x.whole, N(1)) ELSE x.whole

\* The bytes (or rows) an Option<NonZeroU32> of a copy layout stands for.
LayoutValue(opt) == IF opt.some THEN opt.value ELSE N(0)

\* The last paint has observed that its map failed.
MapFailureObserved == chan = "Err" /\ pc \notin {"poll", "receive"}

\* The UI thread is outside paint() after a paint that returned.
PaintReturned == paints > 0 /\ pc \in {"idle", "event"}

\* The current (or last) paint is past its padding loops and its buffer check.
PastEnsure == paints > 0 /\ pc \notin {"pad", "ensure", "panicked"}

\* ------------------------------------------------------------ claims

\* C1: after a paint whose map failed, the staging buffer is in the unmapped
\* state (the unmap runs even on failure).
C1_UnmappedAfterMapFailure == MapFailureObserved => buffer_map = "unmapped"

\* C2: a map failure does not terminate the program: the UI thread has not
\* panicked after a failed map, so a further paint can be accepted.
C2_MapFailureIsPerFrame == chan = "Err" => pc # "panicked"

\* C3: in every step, the retained buffer is replaced by a newly allocated one
\* if and only if the step is a paint's buffer check and the padded size the
\* paint computed differs from the recorded one.
C3_ReplacedIffPaddedDiffers ==
    [][ (output_buffer' # output_buffer)
          <=> /\ pc = "ensure"
              /\ <<texture_width_padded, texture_height_padded>>
                     # <<output_buffer_width, output_buffer_height>> ]_vars

\* C4: the byte size of the retained buffer is 4 * 256 * 256 before the first
\* paint and 4 * pad(width) * pad(height) of the most recently painted size.
C4_BufferSizeIsPaddedArea ==
    /\ paints = 0 => output_buffer.size = Mul(N(4), Mul(N(256), N(256)))
    /\ PastEnsure =>
         output_buffer.size
             = Mul(N(4), Mul(SpecPad(texture_width), SpecPad(texture_height)))

\* C5: once a paint is past its padding loops, the padded values it computed
\* are pad(width) and pad(height) of the requested dimensions.
C5_PadLoopIsPad ==
    (paints > 0 /\ pc # "pad") =>
        /\ texture_width_padded = SpecPad(texture_width)
        /\ texture_height_padded = SpecPad(texture_height)

\* C6: after a paint's buffer check the recorded dimensions are (pad(width),
\* pad(height)) of that paint's request.
C6_RecordedDimsArePadded ==
    PastEnsure =>
        /\ output_buffer_width = SpecPad(texture_width)
        /\ output_buffer_height = SpecPad(texture_height)

\* C7: whenever a paint has returned, no submitted command buffer is still
\* executing, no map request is pending and the staging buffer is unmapped.
C7_NoGpuWorkOutlivesPaint ==
    PaintReturned =>
        /\ gpu_work = "none"
        /\ buffer_map = "unmapped"
        /\ chan # "open"

\* C7 witness: a paint that submitted, mapped and drew has returned.
C7_Witness == PaintReturned /\ pc = "idle" /\ drawn.some /\ copy.some

\* C8: the clip rectangle of a paint is the requested size rounded up to whole
\* pixels, and it does not exceed the padded image rectangle in either dimension.
C8_ClipIsRequestedRect ==
    drawn.some =>
        /\ drawn.clip_width = SpecCeil(size[1])
        /\ drawn.clip_height = SpecCeil(size[2])
        /\ Leq(drawn.clip_width, drawn.image_width)
        /\ Leq(drawn.clip_height, drawn.image_height)

\* C8 witness: a paint of a fractional size has drawn, its clip narrower than
\* the padded image.
C8_Witness ==
    /\ drawn.some
    /\ size[1].frac
    /\ drawn.clip_width # drawn.image_width
    /\ drawn.clip_height # drawn.image_height

\* C9: a timer is requested only by the handling of a WindowConnected event,
\* which stores the token; the handling of a Timer event changes no widget state
\* and requests no timer, layout or repaint.
C9_TimerOnlyOnConnect ==
    [][ /\ (timers_requested' # timers_requested) =>
              /\ pc = "event"
              /\ event.kind = "WindowConnected"
              /\ timer_id' = timers_requested'
        /\ (pc = "event" /\ event.kind = "Timer") =>
              UNCHANGED <<timer_id, timers_requested, invalidations, widget>> ]_vars

\* C9 witness: after a timer was armed, a Timer event carrying the widget's
\* token has been handled.
C9_Witness ==
    /\ pc = "idle"
    /\ event.kind = "Timer"
    /\ timer_id # INVALID
    /\ event.id = timer_id

\* C10: the copy's row stride is 4 * pad(width) bytes, a multiple of 256, with
\* pad(height) rows per image.
C10_RowStrideIsPaddedRow ==
    copy.some =>
        /\ LayoutValue(copy.bytes_per_row) = Mul(N(4), SpecPad(texture_width))
        /\ Rem256(LayoutValue(copy.bytes_per_row)) = 0
        /\ LayoutValue(copy.rows_per_image) = SpecPad(texture_height)

\* C10 witness: a copy was recorded for a width that is no multiple of 256.
C10_Witness == copy.some /\ Rem256(texture_width) # 0 /\ Rem256(texture_height) # 0

\* The current (or last) paint has left both padding loops without a panic.
PastPad == paints > 0 /\ pc # "pad" /\ panic_line \notin {241, 245}

\* C11: the padding loop is idempotent: run on a padded value a paint computed,
\* it returns that value unchanged, so a paint at the padded size computes the
\* same padded dimensions.
C11_PadLoopIdempotent ==
    PastPad =>
        /\ pad_loop(texture_width_padded, overflow_checks)
               = [panic |-> FALSE, value |-> texture_width_padded]
        /\ pad_loop(texture_height_padded, overflow_checks)
               = [panic |-> FALSE, value |-> texture_height_padded]

\* C11 witness: a paint has padded a width and a height that were not aligned.
C11_Witness ==
    /\ PastPad
    /\ Rem256(texture_width) # 0
    /\ Rem256(texture_height) # 0
    /\ texture_width_padded # texture_width

\* The calls of the UI thread in this paint, without the callback's send.
UiCalls ==
    LET OnUiThread(c) == c \notin {"send_ok", "send_err"}
    IN  SelectSeq(calls, OnUiThread)

\* The order of paint's device and channel calls, lines 328-364.
PaintOrder == <<"submit", "map_async", "poll", "receive", "draw", "unmap">>

IsPrefix(a, b) == Len(a) <= Len(b) /\ a = SubSeq(b, 1, Len(a))

\* The callback's sends logged in this paint.
Sends == {i \in DOMAIN calls : calls[i] \in {"send_ok", "send_err"}}

\* C12: within a paint the calls come in the order submit, map request, device
\* wait, wait on the channel, read and draw, unmap, none skipped or repeated;
\* the draw comes only after the channel delivered success; a paint that
\* returned made all of them.
C12_StepsInFixedOrder ==
    /\ IsPrefix(UiCalls, PaintOrder)
    /\ (\E k \in DOMAIN calls : calls[k] = "draw") =>
           \E i, j \in DOMAIN calls :
               i < j /\ calls[i] = "send_ok" /\ calls[j] = "receive"
    /\ PaintReturned => UiCalls = PaintOrder

\* C12 witness: a paint has returned after the callback sent success inside the
\* device wait.
C12_Witness ==
    /\ pc = "idle"
    /\ calls = <<"submit", "map_async", "send_ok", "poll", "receive", "draw", "unmap">>

\* C13: under Fairness, a paint that has begun eventually returns or panics, and
\* its padding loops have reached their exit when it goes on.
C13_PaintEnds ==
    /\ [](PastPad => Rem256(texture_width_padded) = 0 /\ Rem256(texture_height_padded) = 0)
    /\ (pc \notin {"idle", "event", "panicked"}) ~> (pc \in {"idle", "panicked"})

\* C13 witness: a second paint, of a size that needed padding, went through both
\* waits and returned.
C13_Witness ==
    /\ pc = "idle"
    /\ paints > 1
    /\ drawn.some
    /\ Rem256(texture_height) # 0


\* The step is the call c of this paint.
Calls(c) == calls' = Append(calls, c)

\* The map states of a buffer in the order a paint takes them.
MapCycle == {<<"unmapped", "pending">>, <<"pending", "mapped">>, <<"mapped", "unmapped">>}

\* C14: the staging buffer goes unmapped -> map pending -> mapped -> unmapped in
\* a paint (a map that fails leaves the cycle at pending, and that paint ends
\* at the unwrap of line 340): the copy is submitted, and the map requested,
\* only on an unmapped buffer with no map pending; the mapped range is read only
\* while the buffer is mapped; the buffer is replaced only while unmapped; a
\* paint begins only on an unmapped buffer.
C14_MapProtocol ==
    [][ /\ Calls("submit") => buffer_map = "unmapped"
        /\ Calls("map_async") => buffer_map = "unmapped" /\ buffer_map' = "pending"
        /\ Calls("draw") => buffer_map = "mapped" /\ buffer_map' = "mapped"
        /\ output_buffer' # output_buffer => buffer_map = "unmapped"
        /\ paints' # paints => buffer_map = "unmapped"
        /\ buffer_map' # buffer_map =>
               \/ <<buffer_map, buffer_map'>> \in MapCycle
               \/ buffer_map = "pending" /\ buffer_map' = "failed" /\ chan' # "Ok"
      ]_vars

\* C14 witness: a later paint reads the mapped range of a buffer that a resize
\* put in place of the first one.
C14_Witness ==
    /\ paints > 1
    /\ output_buffer.id > 0
    /\ pc = "unmap"
    /\ buffer_map = "mapped"
    /\ drawn.some

\* C15: the oneshot channel of a paint carries exactly one result: the callback
\* sends at most once and its send never finds the receiver gone (no panic at
\* line 335); the receive of line 340 returns only what the one send put in the
\* channel, Ok or Err, never the closed-channel None; a paint that returned had
\* exactly one send.
C15_ChannelCarriesOneResult ==
    /\ panic_line # 335
    /\ chan # "closed"
    /\ Cardinality(Sends) <= 1
    /\ (\E j \in DOMAIN calls : calls[j] = "receive") =>
           /\ Cardinality(Sends) = 1
           /\ \A i \in Sends : \A j \in DOMAIN calls : calls[j] = "receive" => i < j
           /\ pc \in {"draw", "unmap", "panicked"} => chan \in {"Ok", "Err"}
    /\ panic_line = 340 => chan = "Err"
    /\ PaintReturned => Cardinality(Sends) = 1

\* C15 witness: the receive of a paint has returned the Ok that the callback
\* sent.
C15_Witness ==
    /\ pc = "draw"
    /\ chan = "Ok"
    /\ Cardinality(Sends) = 1
    /\ calls[Len(calls)] = "receive"

\* C16: the copy and the decode stay inside the staging buffer.  The copy of the
\* unpadded extent with row stride 4 * pad(width) goes to the retained buffer
\* and its last byte, at stride * (height - 1) + 4 * width, lies within the
\* buffer's size (as do height whole rows); the bytes handed to the decoder are
\* exactly 4 * pad(width) * pad(height), the area of the padded width and height
\* passed with them.
C16_CopyAndDecodeInsideBuffer ==
    /\ copy.some =>
           LET stride == Mul(N(4), SpecPad(copy.width))
           IN  /\ copy.buffer = output_buffer.id
               /\ LayoutValue(copy.bytes_per_row) = stride
               /\ Leq(Add(Mul(stride, copy.height), Mul(N(4), copy.width)),
                      Add(output_buffer.size, stride))
               /\ Leq(Mul(stride, copy.height), output_buffer.size)
    /\ drawn.some =>
           /\ drawn.data_len
                  = Mul(N(4), Mul(SpecPad(texture_width), SpecPad(texture_height)))
           /\ drawn.image_width = SpecPad(texture_width)
           /\ drawn.image_height = SpecPad(texture_height)
           /\ drawn.data_len = Mul(N(4), Mul(drawn.image_width, drawn.image_height))

\* C16 witness: after a paint at another padded size, a paint whose padded width
\* alone differs from the recorded one has copied and decoded.
C16_Witness ==
    /\ paints > 1
    /\ copy.some
    /\ drawn.some
    /\ output_buffer.id > 1
    /\ texture_width_padded # texture_height_padded
    /\ Rem256(texture_width) # 0

====
